---- MODULE Spec2Model ----
(***************************************************************************)
(* A model of the XLF translation generator: the synchronization of an     *)
(* XLF document into the Google Sheet (both implementations found in       *)
(* main.js: targeted row updates, and the full rewrite) and the export.    *)
(*                                                                         *)
(* JavaScript strings are sequences of one-character strings, so that      *)
(* split, trim and length are computed rather than looked up.  The         *)
(* non-string JavaScript values true, false and undefined are one-element  *)
(* sequences holding a token no character equals.                          *)
(***************************************************************************)
EXTENDS Integers, Sequences, FiniteSets, TLC

\* ------------------------------------------------------------- bounds ---
MaxSyncs == 2    \* synchronizations per behaviour
MaxUnits == 2    \* trans-units per document

\* ------------------------------------------------- JavaScript values ---
EmptyStr  == << >>
JSTrue    == << "#true" >>
JSFalse   == << "#false" >>
Undefined == << "#undefined" >>

\* !v
Falsy(v) == v \in {EmptyStr, JSFalse, Undefined}

\* a || b
OrElse(a, b) == IF Falsy(a) THEN b ELSE a

\* typeof v === 'string'
IsString(v) == v \notin {JSTrue, JSFalse, Undefined}

RECURSIVE TrimStart(_)
TrimStart(s) ==
    IF s # << >> /\ Head(s) = " " THEN TrimStart(Tail(s)) ELSE s

RECURSIVE TrimEnd(_)
TrimEnd(s) ==
    IF s # << >> /\ s[Len(s)] = " " THEN TrimEnd(SubSeq(s, 1, Len(s) - 1)) ELSE s

\* String.prototype.trim
Trim(s) == TrimEnd(TrimStart(s))

\* id.split('.')[0]
RECURSIVE FirstPart(_)
FirstPart(s) ==
    IF s = << >> \/ Head(s) = "." THEN << >>
    ELSE << Head(s) >> \o FirstPart(Tail(s))

\* ------------------------------------------------------ column names ---
c_id       == << "i", "d" >>
c_category == << "c", "a", "t", "e", "g", "o", "r", "y" >>
c_maxwidth == << "m", "a", "x", "w", "i", "d", "t", "h" >>
c_sizeunit == << "s", "i", "z", "e", "-", "u", "n", "i", "t" >>
c_English  == << "E", "n", "g", "l", "i", "s", "h" >>
c_active   == << "a", "c", "t", "i", "v", "e" >>
c_French   == << "F", "r", "e", "n", "c", "h" >>
c_Spanish  == << "S", "p", "a", "n", "i", "s", "h" >>

\* Display name -> XLF language code, in the order of the object's keys
LANGUAGES ==
    << [name |-> << "S", "p", "a", "n", "i", "s", "h" >>, code |-> << "e", "s" >>],
       [name |-> << "F", "r", "e", "n", "c", "h" >>, code |-> << "f", "r" >>],
       [name |-> << "P", "o", "r", "t", "u", "g", "u", "e", "s", "e" >>, code |-> << "p", "t", "_", "B", "R" >>],
       [name |-> << "G", "e", "r", "m", "a", "n" >>, code |-> << "d", "e" >>],
       [name |-> << "I", "t", "a", "l", "i", "a", "n" >>, code |-> << "i", "t" >>],
       [name |-> << "T", "u", "r", "k", "i", "s", "h" >>, code |-> << "t", "r" >>],
       [name |-> << "D", "u", "t", "c", "h" >>, code |-> << "n", "l", "_", "N", "L" >>],
       [name |-> << "G", "r", "e", "e", "k" >>, code |-> << "e", "l" >>],
       [name |-> << "A", "r", "a", "b", "i", "c" >>, code |-> << "a", "r" >>],
       [name |-> << "I", "n", "d", "o", "n", "e", "s", "i", "a", "n" >>, code |-> << "i", "d" >>],
       [name |-> << "J", "a", "p", "a", "n", "e", "s", "e" >>, code |-> << "j", "a" >>],
       [name |-> << "T", "h", "a", "i" >>, code |-> << "t", "h" >>],
       [name |-> << "S", "w", "e", "d", "i", "s", "h" >>, code |-> << "s", "v" >>],
       [name |-> << "D", "a", "n", "i", "s", "h" >>, code |-> << "d", "a" >>],
       [name |-> << "F", "i", "n", "n", "i", "s", "h" >>, code |-> << "f", "i" >>],
       [name |-> << "N", "o", "r", "w", "e", "g", "i", "a", "n" >>, code |-> << "n", "o" >>],
       [name |-> << "K", "o", "r", "e", "a", "n" >>, code |-> << "k", "o" >>],
       [name |-> << "C", "r", "o", "a", "t", "i", "a", "n" >>, code |-> << "h", "r" >>],
       [name |-> << "V", "i", "e", "t", "n", "a", "m", "e", "s", "e" >>, code |-> << "v", "i" >>],
       [name |-> << "B", "u", "l", "g", "a", "r", "i", "a", "n" >>, code |-> << "b", "g" >>],
       [name |-> << "P", "o", "l", "i", "s", "h" >>, code |-> << "p", "l" >>],
       [name |-> << "C", "z", "e", "c", "h" >>, code |-> << "c", "s" >>],
       [name |-> << "R", "o", "m", "a", "n", "i", "a", "n" >>, code |-> << "r", "o" >>],
       [name |-> << "U", "k", "r", "a", "i", "n", "i", "a", "n" >>, code |-> << "u", "k" >>],
       [name |-> << "H", "u", "n", "g", "a", "r", "i", "a", "n" >>, code |-> << "h", "u" >>],
       [name |-> << "S", "l", "o", "v", "e", "n", "i", "a", "n" >>, code |-> << "s", "l" >>],
       [name |-> << "S", "l", "o", "v", "a", "k" >>, code |-> << "s", "k" >>],
       [name |-> << "H", "e", "b", "r", "e", "w" >>, code |-> << "h", "e" >>] >>

BASE_COLUMNS == << c_id, c_maxwidth, c_sizeunit, c_English >>

\* Array.prototype.includes
Includes(arr, v) == \E i \in 1..Len(arr) : arr[i] = v

\* obj[k]: undefined when the object has no such key
Get(obj, k) == IF k \in DOMAIN obj THEN obj[k] ELSE Undefined

\* { ...obj, k: v }
Assign(obj, k, v) ==
    [x \in (DOMAIN obj) \cup {k} |-> IF x = k THEN v ELSE obj[x]]

\* cols.forEach(col => { obj[col] = v })
RECURSIVE AssignAll(_, _, _)
AssignAll(obj, cols, v) ==
    IF cols = << >> THEN obj
    ELSE AssignAll(Assign(obj, Head(cols), v), Tail(cols), v)

\* ---------------------------------------------------- the spreadsheet ---
\* The sheet is a grid: a sequence of rows, each a sequence of cells; row 1
\* holds the headers.  The API stores a boolean written RAW as a boolean cell
\* and returns it formatted, "TRUE" or "FALSE"; undefined never reaches it.
s_TRUE  == << "T", "R", "U", "E" >>
s_FALSE == << "F", "A", "L", "S", "E" >>

RenderCell(v) ==
    IF v = JSTrue THEN s_TRUE
    ELSE IF v = JSFalse THEN s_FALSE
    ELSE v

\* values.get omits trailing empty cells of a row and trailing empty rows
RECURSIVE NormRow(_)
NormRow(row) ==
    IF row # << >> /\ row[Len(row)] = EmptyStr
    THEN NormRow(SubSeq(row, 1, Len(row) - 1)) ELSE row

RECURSIVE DropEmptyRows(_)
DropEmptyRows(grid) ==
    IF grid # << >> /\ grid[Len(grid)] = << >>
    THEN DropEmptyRows(SubSeq(grid, 1, Len(grid) - 1)) ELSE grid

NormGrid(grid) == DropEmptyRows([r \in 1..Len(grid) |-> NormRow(grid[r])])

\* row[index] || ''
Cell(row, index) == IF index <= Len(row) THEN OrElse(row[index], EmptyStr) ELSE EmptyStr

NonEmptyHeader(h) == ~Falsy(h)

getSheetHeaders(grid) ==
    LET headers == IF grid # << >> THEN grid[1] ELSE << >>
    IN  SelectSeq(headers, NonEmptyHeader)

\* The object of one data row: a later column of the same name overwrites
\* an earlier one.
RowObject(headers, row) ==
    [h \in {headers[i] : i \in 1..Len(headers)} |->
        LET last == CHOOSE i \in 1..Len(headers) :
                        /\ headers[i] = h
                        /\ \A j \in 1..Len(headers) : headers[j] = h => j <= i
        IN  Cell(row, last)]

readSheet(grid) ==
    IF Len(grid) = 0 THEN << >>
    ELSE [i \in 1..(Len(grid) - 1) |-> RowObject(grid[1], grid[i + 1])]

\* headers.map(col => item[col] !== undefined ? item[col] : '')
ToRow(headers, item) ==
    [c \in 1..Len(headers) |->
        IF Get(item, headers[c]) # Undefined
        THEN RenderCell(Get(item, headers[c])) ELSE EmptyStr]

\* Writing `values` at column A of row r replaces the first Len(values)
\* cells of that row and leaves the cells to their right alone.
PutRow(old, values) ==
    values \o (IF Len(old) > Len(values)
               THEN SubSeq(old, Len(values) + 1, Len(old)) ELSE << >>)

GridRow(grid, r) == IF r <= Len(grid) THEN grid[r] ELSE << >>

Max(a, b) == IF a >= b THEN a ELSE b

RECURSIVE ApplyUpdates(_, _, _)
ApplyUpdates(grid, headers, updates) ==
    IF updates = << >> THEN grid
    ELSE LET u     == Head(updates)
             n     == Max(Len(grid), u.row)
             grid2 == [r \in 1..n |->
                         IF r = u.row
                         THEN PutRow(GridRow(grid, r), ToRow(headers, u.data))
                         ELSE GridRow(grid, r)]
         IN  ApplyUpdates(grid2, headers, Tail(updates))

updateRows(grid, updates) ==
    NormGrid(ApplyUpdates(grid, getSheetHeaders(grid), updates))

appendRows(grid, data) ==
    LET headers == getSheetHeaders(grid)
    IN  NormGrid(NormGrid(grid) \o [i \in 1..Len(data) |-> ToRow(headers, data[i])])

\* writeSheet clears the columns A..lastColumn of every row, then writes the
\* header row and the data rows at A1.
writeSheet(grid, data) ==
    LET headers == getSheetHeaders(grid)
        w       == Len(headers)
        rows    == << headers >> \o [i \in 1..Len(data) |-> ToRow(headers, data[i])]
        blank   == [c \in 1..w |-> EmptyStr]
        n       == Max(Len(grid), Len(rows))
    IN  NormGrid([r \in 1..n |->
            PutRow(PutRow(GridRow(grid, r), blank),
                   IF r <= Len(rows) THEN rows[r] ELSE << >>)])

\* ------------------------------------------------------- the document ---
\* A document is the parsed <file> element: its source-language attribute
\* and its trans-units, whose attributes may be missing (undefined).
s_en_US == << "e", "n", "_", "U", "S" >>

\* parseXLF without the check of the source language.
parseXLF_AnyLanguage(doc) ==
    [ok |-> TRUE,
     segments |-> [i \in 1..Len(doc.units) |->
         [id       |-> OrElse(doc.units[i].id, EmptyStr),
          source   |-> OrElse(doc.units[i].source, EmptyStr),
          maxwidth |-> OrElse(doc.units[i].maxwidth, EmptyStr),
          sizeUnit |-> OrElse(doc.units[i].sizeUnit, EmptyStr)]]]

parseXLF(doc) ==
    IF doc.sourceLanguage # s_en_US
    THEN [ok |-> FALSE, segments |-> << >>]
    ELSE [ok |-> TRUE,
          segments |-> [i \in 1..Len(doc.units) |->
              [id       |-> OrElse(doc.units[i].id, EmptyStr),
               source   |-> OrElse(doc.units[i].source, EmptyStr),
               maxwidth |-> OrElse(doc.units[i].maxwidth, EmptyStr),
               sizeUnit |-> OrElse(doc.units[i].sizeUnit, EmptyStr)]]]

extractCategory(id) ==
    IF Falsy(id) \/ ~IsString(id) THEN EmptyStr
    ELSE OrElse(FirstPart(id), EmptyStr)

\* ------------------------------------------------------ Map (by id) ---
\* A Map is the sequence of its entries [key, val] in insertion order.
MapHas(m, k) == \E i \in 1..Len(m) : m[i].key = k

MapGet(m, k) == m[CHOOSE i \in 1..Len(m) : m[i].key = k].val

\* set() that keeps the value a key already has
MapSet_KeepsFirst(m, k, v) ==
    IF MapHas(m, k) THEN m ELSE Append(m, [key |-> k, val |-> v])

MapSet(m, k, v) ==
    IF MapHas(m, k)
    THEN [i \in 1..Len(m) |-> IF m[i].key = k THEN [key |-> k, val |-> v] ELSE m[i]]
    ELSE Append(m, [key |-> k, val |-> v])

IsNotKey(e, k) == e.key # k

MapDelete(m, k) ==
    LET Keep(e) == IsNotKey(e, k) IN SelectSeq(m, Keep)

\* segments.forEach(seg => xlfMap.set(seg.id, seg))
RECURSIVE BuildXlfMap(_, _)
BuildXlfMap(segments, m) ==
    IF segments = << >> THEN m
    ELSE BuildXlfMap(Tail(segments), MapSet(m, Head(segments).id, Head(segments)))

\* sheetData.forEach(row => { if (row.id) sheetMap.set(row.id, row) })
RECURSIVE BuildSheetMap(_, _)
BuildSheetMap(sheetData, m) ==
    IF sheetData = << >> THEN m
    ELSE BuildSheetMap(Tail(sheetData),
            IF ~Falsy(Get(Head(sheetData), c_id))
            THEN MapSet(m, Get(Head(sheetData), c_id), Head(sheetData))
            ELSE m)

IsLanguageColumn(h) == ~Includes(BASE_COLUMNS, h) /\ h # c_active

languageColumns(sheetHeaders) == SelectSeq(sheetHeaders, IsLanguageColumn)

ZeroStats == [added |-> 0, updated |-> 0, unchanged |-> 0, deactivated |-> 0]

\* NewRow without the loop that empties the language columns.
NewRow_KeepsDerived(segment, langCols) ==
    [k \in {c_id, c_category, c_maxwidth, c_sizeunit, c_English, c_active} |->
        IF k = c_id THEN segment.id
        ELSE IF k = c_category THEN extractCategory(segment.id)
        ELSE IF k = c_maxwidth THEN segment.maxwidth
        ELSE IF k = c_sizeunit THEN segment.sizeUnit
        ELSE IF k = c_English THEN segment.source
        ELSE JSTrue]

\* The row of a segment that the sheet does not hold yet.
NewRow(segment, langCols) ==
    LET base == [k \in {c_id, c_category, c_maxwidth, c_sizeunit, c_English, c_active} |->
                    IF k = c_id THEN segment.id
                    ELSE IF k = c_category THEN extractCategory(segment.id)
                    ELSE IF k = c_maxwidth THEN segment.maxwidth
                    ELSE IF k = c_sizeunit THEN segment.sizeUnit
                    ELSE IF k = c_English THEN segment.source
                    ELSE JSTrue]
    IN  AssignAll(base, langCols, EmptyStr)

\* SourceChangedRow without the loop that clears the language columns.
SourceChangedRow_KeepsTranslations(row, segment, langCols) ==
    Assign(Assign(Assign(Assign(row,
        c_English, segment.source),
        c_maxwidth, segment.maxwidth),
        c_sizeunit, segment.sizeUnit),
        c_active, JSTrue)

\* The row of a matched record whose source text changed.
SourceChangedRow(row, segment, langCols) ==
    AssignAll(Assign(Assign(Assign(Assign(row,
                  c_English, segment.source),
                  c_maxwidth, segment.maxwidth),
                  c_sizeunit, segment.sizeUnit),
                  c_active, JSTrue),
              langCols, EmptyStr)

\* MetadataRow without `active: true`.
MetadataRow_StaysInactive(row, segment) ==
    Assign(Assign(row,
        c_maxwidth, segment.maxwidth),
        c_sizeunit, segment.sizeUnit)

\* The row of a matched record whose source text is the same.
MetadataRow(row, segment) ==
    Assign(Assign(Assign(row,
        c_maxwidth, segment.maxwidth),
        c_sizeunit, segment.sizeUnit),
        c_active, JSTrue)

\* --------------------------------- syncXLFtoSheet, targeted updates ---
\* One iteration of the loop over the rows of the sheet; acc holds xlfMap,
\* rowsToUpdate and stats.
ProcessRow(row, rowNumber, langCols, acc) ==
    LET id == Get(row, c_id) IN
    IF Falsy(id) \/ Trim(id) = EmptyStr THEN acc
    ELSE IF MapHas(acc.xlfMap, id)
    THEN LET segment == MapGet(acc.xlfMap, id)
             sourceChanged == Get(row, c_English) # segment.source
             needsUpdate ==
                 \/ sourceChanged
                 \/ Get(row, c_active) # JSTrue
                 \/ Get(row, c_maxwidth) # segment.maxwidth
                 \/ Get(row, c_sizeunit) # segment.sizeUnit
         IN  [xlfMap |-> MapDelete(acc.xlfMap, id),
              rowsToUpdate |->
                 IF ~needsUpdate THEN acc.rowsToUpdate
                 ELSE IF sourceChanged
                 THEN Append(acc.rowsToUpdate,
                        [row |-> rowNumber, data |-> SourceChangedRow(row, segment, langCols)])
                 ELSE Append(acc.rowsToUpdate,
                        [row |-> rowNumber, data |-> MetadataRow(row, segment)]),
              stats |->
                 IF needsUpdate /\ sourceChanged
                 THEN [acc.stats EXCEPT !.updated = @ + 1]
                 ELSE [acc.stats EXCEPT !.unchanged = @ + 1]]
    ELSE [xlfMap |-> acc.xlfMap,
          rowsToUpdate |->
             IF Get(row, c_active) # JSFalse
             THEN Append(acc.rowsToUpdate,
                    [row |-> rowNumber, data |-> Assign(row, c_active, JSFalse)])
             ELSE acc.rowsToUpdate,
          stats |-> [acc.stats EXCEPT !.deactivated = @ + 1]]

\* for (let i = 0; i < sheetData.length; i++), i counted from 1 here
RECURSIVE ProcessRows(_, _, _, _)
ProcessRows(sheetData, i, langCols, acc) ==
    IF i > Len(sheetData) THEN acc
    ELSE ProcessRows(sheetData, i + 1, langCols,
                     ProcessRow(sheetData[i], i + 1, langCols, acc))

\* The whole of the targeted synchronization on a sheet: the result object
\* and the sheet it leaves.
syncTargeted(grid, doc) ==
    LET parsed == parseXLF(doc) IN
    IF ~parsed.ok
    THEN [success |-> FALSE, stats |-> ZeroStats, totalSegments |-> 0, sheet |-> grid]
    ELSE
    LET segments  == parsed.segments
        sheetData == readSheet(grid)
        xlfMap    == BuildXlfMap(segments, << >>)
        langCols  == languageColumns(getSheetHeaders(grid))
        acc       == ProcessRows(sheetData, 1, langCols,
                        [xlfMap |-> xlfMap, rowsToUpdate |-> << >>, stats |-> ZeroStats])
        rowsToAdd == [i \in 1..Len(acc.xlfMap) |-> NewRow(acc.xlfMap[i].val, langCols)]
        stats     == [acc.stats EXCEPT !.added = Len(rowsToAdd)]
        grid1     == IF Len(acc.rowsToUpdate) > 0
                     THEN updateRows(grid, acc.rowsToUpdate) ELSE grid
        grid2     == IF Len(rowsToAdd) > 0 THEN appendRows(grid1, rowsToAdd) ELSE grid1
    IN  [success |-> TRUE, stats |-> stats, totalSegments |-> Len(segments),
         sheet |-> grid2]

\* ------------------------------------- syncXLFtoSheet, full rewrite ---
\* for (const [id, segment] of xlfMap): the row pushed for one segment
RewriteRow(entry, sheetMap, langCols) ==
    IF ~MapHas(sheetMap, entry.key)
    THEN NewRow(entry.val, langCols)
    ELSE LET existingRow == MapGet(sheetMap, entry.key) IN
         IF Get(existingRow, c_English) # entry.val.source
         THEN SourceChangedRow(existingRow, entry.val, langCols)
         ELSE MetadataRow(existingRow, entry.val)

\* every matched record counts as updated
RewriteKind_AlwaysUpdated(entry, sheetMap) ==
    IF ~MapHas(sheetMap, entry.key) THEN "added" ELSE "updated"

RewriteKind(entry, sheetMap) ==
    IF ~MapHas(sheetMap, entry.key) THEN "added"
    ELSE IF Get(MapGet(sheetMap, entry.key), c_English) # entry.val.source
    THEN "updated" ELSE "unchanged"

CountKind(xlfMap, sheetMap, kind) ==
    Cardinality({i \in 1..Len(xlfMap) : RewriteKind(xlfMap[i], sheetMap) = kind})

syncRewrite(grid, doc) ==
    LET parsed == parseXLF(doc) IN
    IF ~parsed.ok
    THEN [success |-> FALSE, stats |-> ZeroStats, totalSegments |-> 0, sheet |-> grid]
    ELSE
    LET segments  == parsed.segments
        sheetData == readSheet(grid)
        xlfMap    == BuildXlfMap(segments, << >>)
        sheetMap  == BuildSheetMap(sheetData, << >>)
        langCols  == languageColumns(getSheetHeaders(grid))
        live      == [i \in 1..Len(xlfMap) |-> RewriteRow(xlfMap[i], sheetMap, langCols)]
        NotInXlf(e) == ~MapHas(xlfMap, e.key)
        gone      == SelectSeq(sheetMap, NotInXlf)
        dead      == [i \in 1..Len(gone) |-> Assign(gone[i].val, c_active, JSFalse)]
        updatedData == live \o dead
        stats     == [added       |-> CountKind(xlfMap, sheetMap, "added"),
                      updated     |-> CountKind(xlfMap, sheetMap, "updated"),
                      unchanged   |-> CountKind(xlfMap, sheetMap, "unchanged"),
                      deactivated |-> Len(dead)]
    IN  IF Len(getSheetHeaders(grid)) = 0
        THEN [success |-> FALSE, stats |-> ZeroStats, totalSegments |-> 0, sheet |-> grid]
        ELSE [success |-> TRUE, stats |-> stats, totalSegments |-> Len(segments),
              sheet |-> writeSheet(grid, updatedData)]

\* ------------------------------------------------------ model inputs ---
id_Ab    == << "A", ".", "b" >>
id_C     == << "C" >>
id_blank == << " " >>
s_Hi     == << "H", "i" >>
s_Yo     == << "Y", "o" >>
s_5      == << "5" >>
s_char   == << "c", "h", "a", "r" >>
s_Salut  == << "S", "a", "l", "u", "t" >>
s_Hola   == << "H", "o", "l", "a" >>
s_fr     == << "f", "r" >>

Unit(id, source, maxwidth, sizeUnit) ==
    [id |-> id, source |-> source, maxwidth |-> maxwidth, sizeUnit |-> sizeUnit]

UnitPool ==
    { Unit(id_Ab, s_Hi, s_5, s_char),
      Unit(id_Ab, s_Yo, s_5, s_char),
      Unit(id_C, s_Hi, Undefined, Undefined),
      Unit(Undefined, s_Hi, Undefined, Undefined),
      Unit(id_blank, s_Hi, Undefined, Undefined) }

UnitSeqs == UNION {[1..n -> UnitPool] : n \in 0..MaxUnits}

Docs == [sourceLanguage : {s_en_US}, units : UnitSeqs]
        \cup [sourceLanguage : {s_fr}, units : {u \in UnitSeqs : Len(u) <= 1}]

Header1 == << c_id, c_category, c_maxwidth, c_sizeunit, c_English, c_active,
              c_French, c_Spanish >>
Header2 == << c_English, c_French, c_id, c_active, c_maxwidth, c_sizeunit,
              c_category >>

Rec(id, category, maxwidth, sizeUnit, english, active, french, spanish) ==
    [k \in {c_id, c_category, c_maxwidth, c_sizeunit, c_English, c_active,
            c_French, c_Spanish} |->
        IF k = c_id THEN id
        ELSE IF k = c_category THEN category
        ELSE IF k = c_maxwidth THEN maxwidth
        ELSE IF k = c_sizeunit THEN sizeUnit
        ELSE IF k = c_English THEN english
        ELSE IF k = c_active THEN active
        ELSE IF k = c_French THEN french
        ELSE spanish]

RecAb == Rec(id_Ab, << "A" >>, s_5, s_char, s_Hi, s_TRUE, s_Salut, s_Hola)
RecC  == Rec(id_C, << "C" >>, EmptyStr, EmptyStr, s_Hi, s_FALSE, s_Salut, EmptyStr)
RecC2 == Rec(id_C, EmptyStr, s_5, s_char, s_Hi, EmptyStr, EmptyStr, s_Hola)

Sheet(header, recs) ==
    NormGrid(<< header >> \o [i \in 1..Len(recs) |-> ToRow(header, recs[i])])

InitSheets ==
    { Sheet(Header1, << >>),
      Sheet(Header1, << RecAb >>),
      Sheet(Header1, << RecAb, RecC >>),
      Sheet(Header1, << RecC2, RecAb >>),
      Sheet(Header2, << RecAb, RecC >>) }

\* ------------------------------------------------------------- state ---
VARIABLES
    sheet,     \* the grid of the Google Sheet
    variant,   \* which main.js is deployed: "targeted" or "rewrite"
    last,      \* the last call: its document, the sheet before it, its result
    nsync,     \* number of synchronizations so far
    calls      \* the synchronizations under way, each at one of its awaits

vars == << sheet, variant, last, nsync, calls >>

\* no synchronization is under way
NoCalls == << >>

NoDoc == [sourceLanguage |-> s_en_US, units |-> << >>]

Init ==
    /\ sheet \in InitSheets
    /\ variant \in {"targeted", "rewrite"}
    /\ last = [op |-> "none", doc |-> NoDoc, before |-> << >>,
               success |-> FALSE, stats |-> ZeroStats, totalSegments |-> 0]
    /\ nsync = 0
    /\ calls = NoCalls

Sync(doc, result) ==
    /\ sheet' = result.sheet
    /\ last' = [op |-> "sync", doc |-> doc, before |-> sheet,
                success |-> result.success, stats |-> result.stats,
                totalSegments |-> result.totalSegments]
    /\ nsync' = nsync + 1
    /\ UNCHANGED << variant, calls >>

SyncTargeted ==
    /\ variant = "targeted"
    /\ nsync < MaxSyncs
    /\ \E doc \in Docs : Sync(doc, syncTargeted(sheet, doc))

SyncRewrite ==
    /\ variant = "rewrite"
    /\ nsync < MaxSyncs
    /\ \E doc \in Docs : Sync(doc, syncRewrite(sheet, doc))

Next == SyncTargeted \/ SyncRewrite

Spec == Init /\ [][Next]_vars

\* ------------------------------------------- views used by the claims ---
Before == readSheet(last.before)
After  == readSheet(sheet)
Segs   == parseXLF(last.doc).segments
DocMap == BuildXlfMap(Segs, << >>)

SyncOK == last.op = "sync" /\ last.success

\* a row the loop over the sheet passes over: the targeted variant skips a
\* blank id, the full rewrite an empty one
Skipped(record) ==
    IF variant = "targeted"
    THEN Falsy(Get(record, c_id)) \/ Trim(Get(record, c_id)) = EmptyStr
    ELSE Falsy(Get(record, c_id))

\* The same record before and after a call: the targeted variant addresses
\* a record by its row number, the full rewrite by its id; a row that the
\* full rewrite leaves out of sheetMap is carried over to no row.
Same(i, j) ==
    IF variant = "targeted" THEN i = j
    ELSE Get(Before[i], c_id) = Get(After[j], c_id) /\ ~Skipped(Before[i])

IsLanguageName(h) == \E k \in 1..Len(LANGUAGES) : LANGUAGES[k].name = h

\* the translation columns of the sheet
Translations == {h \in {sheet[1][c] : c \in 1..Len(sheet[1])} : IsLanguageName(h)}

SourceChanged(i, j) == Same(i, j) /\ Get(After[j], c_English) # Get(Before[i], c_English)

ChangedRecords ==
    {i \in 1..Len(Before) : \E j \in 1..Len(After) : SourceChanged(i, j)}

\* C1: a synchronization that changes the source text of an existing record
\* leaves every translation of that record empty and counts the record as
\* updated (the counter is the number of such records); hence a non-empty
\* translation found after a synchronization was there before it, on the
\* same record, against the same source text.
C1_SourceChangeClears ==
    SyncOK =>
        /\ \A i \in 1..Len(Before) : \A j \in 1..Len(After) :
              SourceChanged(i, j) =>
                  \A L \in Translations : Get(After[j], L) = EmptyStr
        /\ last.stats.updated = Cardinality(ChangedRecords)
        /\ \A j \in 1..Len(After) : \A L \in Translations :
              Get(After[j], L) # EmptyStr =>
                  \E i \in 1..Len(Before) :
                      /\ Same(i, j)
                      /\ Get(Before[i], L) = Get(After[j], L)
                      /\ Get(Before[i], c_English) = Get(After[j], c_English)

\* a record that held a translation had its source text changed
C1_Witness ==
    /\ SyncOK
    /\ \E i \in 1..Len(Before) : \E j \in 1..Len(After) :
          /\ SourceChanged(i, j)
          /\ \E L \in Translations : Get(Before[i], L) # EmptyStr

\* C2: synchronizing the same document a second time, against the sheet the
\* first run produced, reports added = updated = deactivated = 0 and counts
\* every record as unchanged.
C2_Idempotence ==
    [][ (/\ SyncOK
         /\ last'.op = "sync" /\ last'.success
         /\ last'.doc = last.doc)
        => /\ last'.stats.added = 0
           /\ last'.stats.updated = 0
           /\ last'.stats.deactivated = 0
           /\ last'.stats.unchanged = Len(readSheet(sheet')) ]_vars

IdCount(records, id) ==
    Cardinality({i \in 1..Len(records) : Get(records[i], c_id) = id})

\* C3: every record (row) that was in the sheet before a synchronization is
\* still in the sheet after it.
C3_NeverDeleted ==
    SyncOK =>
        \A i \in 1..Len(Before) :
            IdCount(After, Get(Before[i], c_id)) >= IdCount(Before, Get(Before[i], c_id))

IsActive(record) == Get(record, c_active) = s_TRUE

\* C4: after a successful synchronization a record is active if and only if
\* its id appears in the document that was synchronized.
C4_ActiveIffInDocument ==
    SyncOK =>
        \A j \in 1..Len(After) :
            IsActive(After[j]) <=> MapHas(DocMap, Get(After[j], c_id))

Rows == readSheet(sheet)

\* C5: no two records of the sheet have the same id.
C5_UniqueIds ==
    \A j, k \in 1..Len(Rows) :
        j # k => Get(Rows[j], c_id) # Get(Rows[k], c_id)

\* the ids of the document that the sheet did not hold before the call
NewIds ==
    {DocMap[k].key : k \in 1..Len(DocMap)} \ {Get(Before[i], c_id) : i \in 1..Len(Before)}

\* C6: every id of the document that is not yet in the sheet becomes a new
\* record whose stored category is the text of the id before its first dot,
\* active, every translation empty, source, maxwidth and size-unit copied
\* from the segment; the counter `added` is the number of such ids.
C6_NewRecord ==
    SyncOK =>
        /\ \A id \in NewIds :
              \E j \in 1..Len(After) :
                  /\ Get(After[j], c_id) = id
                  /\ Get(After[j], c_category) = FirstPart(id)
                  /\ IsActive(After[j])
                  /\ \A L \in Translations : Get(After[j], L) = EmptyStr
                  /\ Get(After[j], c_English) = MapGet(DocMap, id).source
                  /\ Get(After[j], c_maxwidth) = MapGet(DocMap, id).maxwidth
                  /\ Get(After[j], c_sizeunit) = MapGet(DocMap, id).sizeUnit
        /\ last.stats.added = Cardinality(NewIds)

\* C7: no synchronization changes the category of an existing record.
C7_CategoryKept ==
    SyncOK =>
        \A i \in 1..Len(Before) : \A j \in 1..Len(After) :
            Same(i, j) => Get(After[j], c_category) = Get(Before[i], c_category)

Columns == {sheet[1][c] : c \in 1..Len(sheet[1])}

\* the record's id is in the document with the source text the record holds
MatchedSameSource(record) ==
    /\ MapHas(DocMap, Get(record, c_id))
    /\ MapGet(DocMap, Get(record, c_id)).source = Get(record, c_English)

\* C8: a record matched with an unchanged source keeps every column but
\* maxwidth, size-unit and active, and the counter `unchanged` is the number
\* of such records; a record whose id is absent from the document keeps
\* every column but active.
C8_Frame ==
    SyncOK =>
        /\ \A i \in 1..Len(Before) :
              MatchedSameSource(Before[i]) =>
                  \E j \in 1..Len(After) :
                      /\ Same(i, j)
                      /\ \A h \in Columns \ {c_maxwidth, c_sizeunit, c_active} :
                            Get(After[j], h) = Get(Before[i], h)
        /\ last.stats.unchanged =
              Cardinality({i \in 1..Len(Before) : MatchedSameSource(Before[i])})
        /\ \A i \in 1..Len(Before) :
              ~MapHas(DocMap, Get(Before[i], c_id)) =>
                  \E j \in 1..Len(After) :
                      /\ Same(i, j)
                      /\ \A h \in Columns \ {c_active} :
                            Get(After[j], h) = Get(Before[i], h)

Deactivated(record) == Get(record, c_active) = s_FALSE

\* C9: a deactivated record whose id reappears in the document with the same
\* source text is active after the synchronization, with the translations
\* it had, and is among the records the counter `unchanged` counts.
C9_Revival ==
    SyncOK =>
        /\ \A i \in 1..Len(Before) :
              (Deactivated(Before[i]) /\ MatchedSameSource(Before[i])) =>
                  /\ ~Skipped(Before[i])
                  /\ \E j \in 1..Len(After) :
                        /\ Same(i, j)
                        /\ IsActive(After[j])
                        /\ \A L \in Translations :
                              Get(After[j], L) = Get(Before[i], L)
        /\ last.stats.unchanged =
              Cardinality({i \in 1..Len(Before) :
                              MatchedSameSource(Before[i]) /\ ~Skipped(Before[i])})

\* a deactivated record that held a translation was revived
C9_Witness ==
    /\ SyncOK
    /\ \E i \in 1..Len(Before) :
          /\ Deactivated(Before[i]) /\ MatchedSameSource(Before[i])
          /\ \E L \in Translations : Get(Before[i], L) # EmptyStr
          /\ \E j \in 1..Len(After) : Same(i, j) /\ IsActive(After[j])

\* C10: synchronizing an empty segment set against N active records leaves
\* N records, none active, reports deactivated = N and zero for the other
\* counters, and changes no source text and no translation.
C10_SoftDelete ==
    (SyncOK /\ Segs = << >> /\ \A i \in 1..Len(Before) : IsActive(Before[i])) =>
        /\ Len(After) = Len(Before)
        /\ \A j \in 1..Len(After) : Deactivated(After[j])
        /\ last.stats = [added |-> 0, updated |-> 0, unchanged |-> 0,
                         deactivated |-> Len(Before)]
        /\ \A i \in 1..Len(Before) :
              \E j \in 1..Len(After) :
                  /\ Same(i, j)
                  /\ Get(After[j], c_English) = Get(Before[i], c_English)
                  /\ \A L \in Translations : Get(After[j], L) = Get(Before[i], L)

\* ------------------------------------- the records with a usable id ---
\* A segment without an id is stored as a row with an empty id, which the
\* targeted variant passes over and the full rewrite drops.  The statements
\* below are those of C2, C3, C4, C5, C8 and C10 for sheets and documents
\* whose ids are all non-blank, where they hold except for the counter
\* `deactivated`, which counts every absent record again on every run.
ValidId(id) == ~Falsy(id) /\ Trim(id) # EmptyStr

ValidRecords(records) ==
    \A i \in 1..Len(records) : ValidId(Get(records[i], c_id))

ValidDocument(doc) ==
    \A i \in 1..Len(doc.units) : ValidId(doc.units[i].id)

NonBlank_Idempotence ==
    [][ (/\ SyncOK
         /\ last'.op = "sync" /\ last'.success
         /\ last'.doc = last.doc
         /\ ValidDocument(last.doc) /\ ValidRecords(Before))
        => /\ last'.stats.added = 0
           /\ last'.stats.updated = 0
           /\ last'.stats.deactivated = last.stats.deactivated
           /\ sheet' = sheet ]_vars

NonBlank_NeverDeleted == ValidRecords(Before) => C3_NeverDeleted

NonBlank_ActiveIffInDocument == ValidRecords(After) => C4_ActiveIffInDocument

NonBlank_UniqueIds ==
    \A j, k \in 1..Len(Rows) :
        (j # k /\ ValidId(Get(Rows[j], c_id))) => Get(Rows[j], c_id) # Get(Rows[k], c_id)

NonBlank_Frame == ValidRecords(Before) => C8_Frame

NonBlank_SoftDelete == ValidRecords(Before) => C10_SoftDelete

\* ------------------------------------- sheets with any header row ---
\* The header row is edited by hand: it may hold a cell without a name, with
\* data below it, and columns the configuration does not know.
c_Notes == << "N", "o", "t", "e", "s" >>
s_note  == << "o", "k" >>

HeaderGap   == << c_id, EmptyStr, c_category, c_maxwidth, c_sizeunit, c_English,
                  c_active, c_French >>
HeaderNotes == << c_id, c_maxwidth, c_sizeunit, c_English, c_active, c_French,
                  c_Notes >>

AnyHeaderSheets ==
    { Sheet(HeaderGap, << Assign(RecAb, EmptyStr, s_note) >>),
      Sheet(HeaderNotes, << Assign(RecAb, c_Notes, s_note),
                            Assign(RecC, c_Notes, s_note) >>) }

InitAnyHeader ==
    /\ sheet \in AnyHeaderSheets
    /\ variant \in {"targeted", "rewrite"}
    /\ last = [op |-> "none", doc |-> NoDoc, before |-> << >>,
               success |-> FALSE, stats |-> ZeroStats, totalSegments |-> 0]
    /\ nsync = 0
    /\ calls = NoCalls

SpecAnyHeader == InitAnyHeader /\ [][Next]_vars

\* the document holds the id of the record with another source text
SourceDiffers(record) ==
    /\ MapHas(DocMap, Get(record, c_id))
    /\ MapGet(DocMap, Get(record, c_id)).source # Get(record, c_English)

Width(grid) ==
    IF grid = << >> THEN 0
    ELSE CHOOSE n \in {Len(grid[r]) : r \in 1..Len(grid)} :
            \A r \in 1..Len(grid) : Len(grid[r]) <= n

\* C11: a row that a synchronization writes back keeps, in every column of
\* the sheet, the value the column held, except in the columns English,
\* maxwidth, size-unit and active, and in the language columns (those that
\* are neither base columns nor `active`), which a source change empties.
C11_ColumnsPreserved ==
    SyncOK =>
        \A i \in 1..Len(Before) : \A j \in 1..Len(After) :
            Same(i, j) =>
                \A c \in 1..Width(last.before) :
                    LET h == Cell(last.before[1], c) IN
                    \/ Cell(sheet[j + 1], c) = Cell(last.before[i + 1], c)
                    \/ h \in {c_English, c_maxwidth, c_sizeunit, c_active}
                    \/ /\ SourceDiffers(Before[i])
                       /\ IsLanguageColumn(h)
                       /\ Cell(sheet[j + 1], c) = EmptyStr

\* C12: the records that existed before a synchronization keep their
\* relative order, and every added record comes after all of them.
C12_OrderPreserved ==
    SyncOK =>
        /\ \A i1, i2 \in 1..Len(Before) : \A j1, j2 \in 1..Len(After) :
              (i1 < i2 /\ Same(i1, j1) /\ Same(i2, j2)) => j1 < j2
        /\ \A j1, j2 \in 1..Len(After) :
              ((\E i \in 1..Len(Before) : Same(i, j1))
                 /\ ~(\E i \in 1..Len(Before) : Same(i, j2))) => j1 < j2

\* C19: synchronizing a document from which no segment is extracted fails
\* and leaves the sheet as it was.
C19_NoSegmentsFails ==
    (last.op = "sync" /\ parseXLF(last.doc).segments = << >>) =>
        /\ ~last.success
        /\ sheet = last.before

\* C20: synchronizing a document whose source language is not en_US returns
\* a failure and leaves the sheet as it was.
C20_SourceLanguageFails ==
    (last.op = "sync" /\ last.doc.sourceLanguage # s_en_US) =>
        /\ ~last.success
        /\ sheet = last.before

\* a document in another source language, with a segment, was synchronized
\* against a sheet that holds records
C20_Witness ==
    /\ last.op = "sync"
    /\ last.doc.sourceLanguage # s_en_US
    /\ Len(last.doc.units) > 0
    /\ Len(Before) > 0

\* ------------------------------------------------------- the export ---
\* Number(v) of a cell: surrounding spaces are dropped, the empty string is
\* 0, an optional sign with decimal digits is that integer, anything else in
\* the inputs used here is NaN.
Digits == << "0", "1", "2", "3", "4", "5", "6", "7", "8", "9" >>

IsDigit(ch) == Includes(Digits, ch)

DigitValue(ch) == (CHOOSE i \in 1..Len(Digits) : Digits[i] = ch) - 1

RECURSIVE DecimalValue(_)
DecimalValue(s) ==
    IF s = << >> THEN 0
    ELSE 10 * DecimalValue(SubSeq(s, 1, Len(s) - 1)) + DigitValue(s[Len(s)])

AllDigits(s) == s # << >> /\ \A i \in 1..Len(s) : IsDigit(s[i])

NaN == [nan |-> TRUE, value |-> 0]

Number(v) ==
    IF ~IsString(v) THEN NaN
    ELSE LET t == Trim(v) IN
         IF t = << >> THEN [nan |-> FALSE, value |-> 0]
         ELSE IF Head(t) \in {"-", "+"} /\ AllDigits(Tail(t))
              THEN [nan |-> FALSE,
                    value |-> IF Head(t) = "-" THEN 0 - DecimalValue(Tail(t))
                              ELSE DecimalValue(Tail(t))]
         ELSE IF AllDigits(t) THEN [nan |-> FALSE, value |-> DecimalValue(t)]
         ELSE NaN

isNaN(n) == n.nan

\* LANGUAGES[targetLang]
LanguageCode(targetLang) ==
    IF \E i \in 1..Len(LANGUAGES) : LANGUAGES[i].name = targetLang
    THEN LANGUAGES[CHOOSE i \in 1..Len(LANGUAGES) :
                      LANGUAGES[i].name = targetLang].code
    ELSE Undefined

s_false == << "f", "a", "l", "s", "e" >>
s_0     == << "0" >>

\* only a record marked TRUE counts as active
IsActiveRecord_OnlyTrue(row) == Get(row, c_active) = s_TRUE

\* the test of the activeRecords filter
IsActiveRecord(row) ==
    LET active == Get(row, c_active) IN
    IF Falsy(active) THEN FALSE
    ELSE IF active \in {JSFalse, s_false, s_FALSE, s_0} THEN FALSE
    ELSE TRUE

\* a translation of spaces only counts as a translation
HasTranslation_NoTrim(row, targetLang) == ~Falsy(Get(row, targetLang))

\* row[targetLang] && row[targetLang].trim() !== ''
HasTranslation(row, targetLang) ==
    /\ ~Falsy(Get(row, targetLang))
    /\ Trim(Get(row, targetLang)) # EmptyStr

\* a translation as long as maxwidth counts as too long
ExceedsMaxwidth_OrEqual(row, targetLang) ==
    /\ ~Falsy(Get(row, c_maxwidth))
    /\ ~isNaN(Number(Get(row, c_maxwidth)))
    /\ IsString(Get(row, targetLang))
    /\ Len(Get(row, targetLang)) >= Number(Get(row, c_maxwidth)).value

\* the test that pushes a maxwidth error and skips the row
ExceedsMaxwidth(row, targetLang) ==
    /\ ~Falsy(Get(row, c_maxwidth))
    /\ ~isNaN(Number(Get(row, c_maxwidth)))
    /\ IsString(Get(row, targetLang))
    /\ Len(Get(row, targetLang)) > Number(Get(row, c_maxwidth)).value

activeRecords(sheetData) == SelectSeq(sheetData, IsActiveRecord)

\* the rows with a translation, in the order of the sheet
Translated(targetLang, sheetData) ==
    LET Test(row) == HasTranslation(row, targetLang)
    IN  SelectSeq(activeRecords(sheetData), Test)

\* rows that are too long are skipped without a report
maxwidthErrors_Silent(targetLang, sheetData) == << >>

maxwidthErrors(targetLang, sheetData) ==
    LET Test(row) == ExceedsMaxwidth(row, targetLang)
        rows == SelectSeq(Translated(targetLang, sheetData), Test)
    IN  [i \in 1..Len(rows) |->
            [id       |-> Get(rows[i], c_id),
             value    |-> Get(rows[i], targetLang),
             maxwidth |-> Get(rows[i], c_maxwidth)]]

transUnits(targetLang, sheetData) ==
    LET Test(row) == ~ExceedsMaxwidth(row, targetLang)
        rows == SelectSeq(Translated(targetLang, sheetData), Test)
    IN  [i \in 1..Len(rows) |->
            [id       |-> OrElse(Get(rows[i], c_id), EmptyStr),
             maxwidth |-> OrElse(Get(rows[i], c_maxwidth), EmptyStr),
             sizeUnit |-> OrElse(Get(rows[i], c_sizeunit), EmptyStr),
             source   |-> OrElse(Get(rows[i], c_English), EmptyStr),
             target   |-> Get(rows[i], targetLang)]]

\* no document
NoXlf == [targetLanguage |-> Undefined, transUnits |-> << >>]

\* exportXLF: ok is FALSE when it throws; xlf is the document it builds, as
\* the target language and the trans-units of its body
exportXLF(targetLang, sheetData) ==
    IF Falsy(LanguageCode(targetLang))
    THEN [ok |-> FALSE, xlf |-> NoXlf, maxwidthErrors |-> << >>]
    ELSE [ok |-> TRUE,
          xlf |-> [targetLanguage |-> LanguageCode(targetLang),
                   transUnits     |-> transUnits(targetLang, sheetData)],
          maxwidthErrors |-> maxwidthErrors(targetLang, sheetData)]

\* the configured languages in the order of the sheet's columns
getAvailableLanguages_SheetOrder(sheetHeaders) ==
    LET Configured(h) == ~Falsy(LanguageCode(h))
    IN  SelectSeq(sheetHeaders, Configured)

getAvailableLanguages(sheetHeaders) ==
    LET names == [i \in 1..Len(LANGUAGES) |-> LANGUAGES[i].name]
        InSheet(lang) == Includes(sheetHeaders, lang)
    IN  SelectSeq(names, InSheet)

GenerateFailure ==
    [success |-> FALSE, xlf |-> NoXlf, maxwidthErrors |-> << >>,
     segmentCount |-> 0]

\* generateXLF without the check against the available languages
generateXLF_NoCheck(grid, targetLanguage) ==
    LET sheetData == readSheet(grid)
        xlfContent == exportXLF(targetLanguage, sheetData)
    IN  IF ~xlfContent.ok THEN GenerateFailure
        ELSE [success |-> TRUE, xlf |-> xlfContent.xlf,
              maxwidthErrors |-> xlfContent.maxwidthErrors,
              segmentCount |-> Len(sheetData)]

generateXLF(grid, targetLanguage) ==
    LET sheetData == readSheet(grid)
        availableLanguages == getAvailableLanguages(getSheetHeaders(grid))
        xlfContent == exportXLF(targetLanguage, sheetData)
    IN  IF ~Includes(availableLanguages, targetLanguage) THEN GenerateFailure
        ELSE IF ~xlfContent.ok THEN GenerateFailure
        ELSE [success |-> TRUE, xlf |-> xlfContent.xlf,
              maxwidthErrors |-> xlfContent.maxwidthErrors,
              segmentCount |-> Len(sheetData)]

\* ---------------------------------------------- inputs of the export ---
MaxRows == 2

s_False  == << "F", "a", "l", "s", "e" >>
s_date   == << "2", "0", "2", "4" >>
s_minus1 == << "-", "1" >>
s_x      == << "x" >>
s_space  == << " " >>
s_Salut6 == << "S", "a", "l", "u", "t", "!" >>
c_German == << "G", "e", "r", "m", "a", "n" >>

\* the record of row n: its id is unique in the sheet
ExportRec(n, active, maxwidth, spanish) ==
    Rec(<< "r", Digits[n + 1] >>, EmptyStr, maxwidth, s_char, s_Hi, active,
        s_Salut, spanish)

\* the values of active, maxwidth and the Spanish translation of one row
ExportPool ==
    { << a, EmptyStr, s_Hola >> :
        a \in {s_TRUE, s_FALSE, s_false, s_0, EmptyStr, s_False, s_date} }
    \cup { << s_TRUE, s_5, t >> : t \in {s_Hola, s_Salut, s_Salut6} }
    \cup { << s_TRUE, s_0, s_Hola >>,
           << s_TRUE, s_minus1, s_Hola >>,
           << s_TRUE, s_x, s_Salut6 >>,
           << s_TRUE, s_space, s_Hola >>,
           << s_TRUE, s_5, EmptyStr >>,
           << s_TRUE, s_5, s_space >> }

ExportRecSeqs(n) ==
    UNION { { [i \in 1..k |-> ExportRec(i, f[i][1], f[i][2], f[i][3])] :
                f \in [1..k -> ExportPool] } : k \in 0..n }

ExportSheets ==
    { Sheet(Header1, recs) : recs \in ExportRecSeqs(MaxRows) }
    \cup { Sheet(h, recs) : h \in {Header2, HeaderNotes},
                            recs \in ExportRecSeqs(1) }

\* names asked for: two configured and present in some sheets, one
\* configured and in no sheet, one that is a column but not configured
ExportLanguages == {c_Spanish, c_French, c_German, c_category}

InitExport ==
    /\ sheet \in ExportSheets
    /\ variant = "targeted"
    /\ last = [op |-> "none"]
    /\ nsync = 0
    /\ calls = NoCalls

GenerateXLF ==
    \E targetLanguage \in ExportLanguages :
        /\ last' = [op |-> "export",
                    language |-> targetLanguage,
                    before |-> sheet,
                    availableLanguages |->
                        getAvailableLanguages(getSheetHeaders(sheet)),
                    result |-> generateXLF(sheet, targetLanguage)]
        /\ UNCHANGED << sheet, variant, nsync, calls >>

NextExport == GenerateXLF

SpecExport == InitExport /\ [][NextExport]_vars

\* ------------------------------------------------- views of an export ---
Exported == last.op = "export"

ExportOK == Exported /\ last.result.success

ExportRows == readSheet(last.before)

\* the ids of the trans-units of the document, in order
OutputIds ==
    [i \in 1..Len(last.result.xlf.transUnits) |->
        last.result.xlf.transUnits[i].id]

ViolationIds ==
    [i \in 1..Len(last.result.maxwidthErrors) |->
        last.result.maxwidthErrors[i].id]

Translation(row) == Get(row, last.language)

NonBlank(text) == \E i \in 1..Len(text) : text[i] # " "

\* the active rule as the claims state it
LenientActive(row) ==
    Get(row, c_active) \notin {JSFalse, s_false, s_FALSE, s_0, EmptyStr}

Count(seq, v) == Cardinality({i \in 1..Len(seq) : seq[i] = v})

\* active by the rule of the claims, with a translation that is not blank
Eligible(row) == LenientActive(row) /\ NonBlank(Translation(row))

\* maxwidth is not empty and converts to a number
NumericLimit(row) ==
    Get(row, c_maxwidth) # EmptyStr /\ ~isNaN(Number(Get(row, c_maxwidth)))

PositiveLimit(row) ==
    NumericLimit(row) /\ Number(Get(row, c_maxwidth)).value > 0

OverLimit(row) ==
    /\ NumericLimit(row)
    /\ Len(Translation(row)) > Number(Get(row, c_maxwidth)).value

\* the record is left out of the document and reported once, with its id,
\* its translation and its maxwidth
Reported(row) ==
    /\ Count(OutputIds, Get(row, c_id)) = 0
    /\ Count(ViolationIds, Get(row, c_id)) = 1
    /\ Includes(last.result.maxwidthErrors,
                [id |-> Get(row, c_id), value |-> Translation(row),
                 maxwidth |-> Get(row, c_maxwidth)])

Included(row) ==
    /\ Count(OutputIds, Get(row, c_id)) = 1
    /\ Count(ViolationIds, Get(row, c_id)) = 0

\* C13 as stated: an export leaves a record out and reports a violation
\* exactly when its maxwidth is a valid positive number that the length of
\* the translation strictly exceeds; otherwise the record is included and
\* nothing is reported.
C13_PositiveLimit ==
    ExportOK =>
        \A i \in 1..Len(ExportRows) :
            Eligible(ExportRows[i]) =>
                IF /\ PositiveLimit(ExportRows[i])
                   /\ Len(Translation(ExportRows[i])) >
                          Number(Get(ExportRows[i], c_maxwidth)).value
                THEN Reported(ExportRows[i])
                ELSE Included(ExportRows[i])

\* C13 amended: an export leaves a record out and reports a violation
\* exactly when its maxwidth is not empty, converts to a number, and the
\* length of the translation strictly exceeds that number, whatever its
\* sign; otherwise the record is included and nothing is reported.
C13_NumericLimit ==
    ExportOK =>
        \A i \in 1..Len(ExportRows) :
            Eligible(ExportRows[i]) =>
                IF OverLimit(ExportRows[i])
                THEN Reported(ExportRows[i])
                ELSE Included(ExportRows[i])

\* an export reported a record whose maxwidth is 0 and included a record
\* whose translation is as long as its maxwidth
C13_Witness ==
    /\ ExportOK
    /\ \E i \in 1..Len(ExportRows) :
          /\ Get(ExportRows[i], c_maxwidth) = s_0
          /\ Count(ViolationIds, Get(ExportRows[i], c_id)) = 1
    /\ \E i \in 1..Len(ExportRows) :
          /\ Get(ExportRows[i], c_maxwidth) = s_5
          /\ Len(Translation(ExportRows[i])) = 5
          /\ Count(OutputIds, Get(ExportRows[i], c_id)) = 1

\* C14: an export for an available language succeeds whatever the lengths,
\* and every active record with a translation that is not blank is in
\* exactly one of the document and the list of violations.
C14_OutputOrViolation ==
    (Exported /\ Includes(last.availableLanguages, last.language)) =>
        /\ last.result.success
        /\ \A i \in 1..Len(ExportRows) :
              Eligible(ExportRows[i]) =>
                  Count(OutputIds, Get(ExportRows[i], c_id))
                    + Count(ViolationIds, Get(ExportRows[i], c_id)) = 1

\* an export returned a document with a trans-unit and a violation
C14_Witness ==
    /\ ExportOK
    /\ Len(OutputIds) > 0
    /\ Len(ViolationIds) > 0

\* C15: a record is not active exactly when its active value is false,
\* "false", "FALSE", "0" or empty; every other value is active, and only
\* active records are in the document or in the list of violations.
C15_LenientActive ==
    ExportOK =>
        \A i \in 1..Len(ExportRows) :
            LET row == ExportRows[i]
                used == Count(OutputIds, Get(row, c_id))
                          + Count(ViolationIds, Get(row, c_id)) > 0
            IN  /\ used => LenientActive(row)
                /\ (LenientActive(row) /\ NonBlank(Translation(row))) => used

\* an export took a record whose active value is a date and left out one
\* whose active value is "0"
C15_Witness ==
    /\ ExportOK
    /\ \E i \in 1..Len(ExportRows) :
          /\ Get(ExportRows[i], c_active) = s_date
          /\ Count(OutputIds, Get(ExportRows[i], c_id)) = 1
    /\ \E i \in 1..Len(ExportRows) :
          /\ Get(ExportRows[i], c_active) = s_0
          /\ NonBlank(Translation(ExportRows[i]))
          /\ Count(OutputIds, Get(ExportRows[i], c_id)) = 0

Qualifies(row) == Eligible(row) /\ ~OverLimit(row)

\* C16: the trans-units of the document are exactly the records that are
\* active, have a translation that is not blank and do not exceed their
\* maxwidth, in the order of the sheet, each with its translation.
C16_OutputSequence ==
    ExportOK =>
        LET rows == SelectSeq(ExportRows, Qualifies) IN
        /\ OutputIds = [i \in 1..Len(rows) |-> Get(rows[i], c_id)]
        /\ \A i \in 1..Len(rows) :
              last.result.xlf.transUnits[i].target = Translation(rows[i])

\* an export kept the second of two rows and left out the first, whose
\* translation is blank
C16_Witness ==
    /\ ExportOK
    /\ Len(ExportRows) = 2
    /\ Translation(ExportRows[1]) = s_space
    /\ OutputIds = << Get(ExportRows[2], c_id) >>

\* C17: an export for a name that is not both a configured language and a
\* column of the sheet returns a failure and no document.
C17_UnknownLanguage ==
    (Exported /\ ~(/\ ~Falsy(LanguageCode(last.language))
                   /\ Includes(last.before[1], last.language))) =>
        /\ ~last.result.success
        /\ last.result.xlf = NoXlf

\* an export was asked for a configured language that the sheet, which
\* holds records, has no column for
C17_Witness ==
    /\ Exported
    /\ last.language = c_German
    /\ Len(ExportRows) > 0
    /\ ~last.result.success

LanguageIndex(name) ==
    CHOOSE i \in 1..Len(LANGUAGES) : LANGUAGES[i].name = name

\* C18: the available languages are exactly the configured names that are
\* columns of the sheet, each once, in the order of the configuration.
C18_AvailableLanguages ==
    Exported =>
        LET available == last.availableLanguages
            headers == last.before[1]
        IN  /\ \A i \in 1..Len(available) :
                  /\ ~Falsy(LanguageCode(available[i]))
                  /\ Includes(headers, available[i])
            /\ \A i \in 1..Len(LANGUAGES) :
                  Includes(headers, LANGUAGES[i].name)
                      => Includes(available, LANGUAGES[i].name)
            /\ \A i, j \in 1..Len(available) :
                  i < j => LanguageIndex(available[i])
                              < LanguageIndex(available[j])

\* the sheet lists French before Spanish, the configuration Spanish first
C18_Witness ==
    /\ Exported
    /\ last.availableLanguages = << c_Spanish, c_French >>
    /\ last.before[1] = Header1

\* ------------------------------------------ more claims about a sync ---
\* the last segment of the document with this id
LastSegment(id) ==
    Segs[CHOOSE k \in 1..Len(Segs) :
            /\ Segs[k].id = id
            /\ \A n \in 1..Len(Segs) : Segs[n].id = id => n <= k]

RepeatedIds ==
    {Segs[k].id : k \in {n \in 1..Len(Segs) :
                            \E o \in 1..Len(Segs) : o # n /\ Segs[o].id = Segs[n].id}}

\* C23: for an id that several segments of the document carry, the sheet
\* afterwards holds an active record with the source, maxwidth and
\* size-unit of the last of them, at most one record more with that id than
\* before, exactly one if there was none, and the counters added, updated
\* and unchanged together count each id of the document once.
C23_LastSegmentWins ==
    SyncOK =>
        /\ \A id \in RepeatedIds :
              /\ \E j \in 1..Len(After) :
                    /\ Get(After[j], c_id) = id
                    /\ Get(After[j], c_English) = LastSegment(id).source
                    /\ Get(After[j], c_maxwidth) = LastSegment(id).maxwidth
                    /\ Get(After[j], c_sizeunit) = LastSegment(id).sizeUnit
                    /\ IsActive(After[j])
              /\ IdCount(After, id) <= IdCount(Before, id) + 1
              /\ IdCount(Before, id) = 0 => IdCount(After, id) = 1
        /\ last.stats.added + last.stats.updated + last.stats.unchanged
              = Len(DocMap)

\* a document with two segments of one id and different sources was
\* synchronized against a sheet that holds the id
C23_Witness ==
    /\ SyncOK
    /\ Len(Segs) = 2
    /\ Segs[1].id = id_Ab /\ Segs[2].id = id_Ab
    /\ Segs[1].source # Segs[2].source
    /\ IdCount(Before, id_Ab) = 1
    /\ last.stats.updated = 1

\* C24: a segment without id does not make the synchronization fail,
\* creates no record and changes none: every record without id found
\* afterwards was there before, and there are no more of them.
C24_BlankIdSkipped ==
    (last.op = "sync" /\ parseXLF(last.doc).ok) =>
        /\ last.success
        /\ IdCount(After, EmptyStr) <= IdCount(Before, EmptyStr)
        /\ \A j \in 1..Len(After) :
              Get(After[j], c_id) = EmptyStr =>
                  \E i \in 1..Len(Before) : Before[i] = After[j]

HasDot(id) == \E k \in 1..Len(id) : id[k] = "."

OtherVariant(grid, doc) ==
    IF variant = "targeted" THEN syncRewrite(grid, doc)
    ELSE syncTargeted(grid, doc)

RecordSet(grid) == {readSheet(grid)[i] : i \in 1..Len(readSheet(grid))}

UniqueIds(records) ==
    \A i, j \in 1..Len(records) :
        i # j => Get(records[i], c_id) # Get(records[j], c_id)

C29_CountersPartition ==
    SyncOK =>
        /\ last.stats.added + last.stats.updated + last.stats.unchanged
              + last.stats.deactivated = Len(After)
        /\ last.stats.added + last.stats.updated + last.stats.unchanged
              = Len(DocMap)
        /\ Len(Before) = 0 =>
              /\ last.stats.added = Len(After)
              /\ last.stats.updated = 0
              /\ last.stats.unchanged = 0
              /\ last.stats.deactivated = 0

\* C30: the segmentCount of a successful export is the number of
\* trans-units of the document it returns.
C30_SegmentCount ==
    ExportOK => last.result.segmentCount = Len(last.result.xlf.transUnits)

\* --------------------------------- a synchronization, await by await ---
\* syncXLFtoSheet runs as a chain of awaited store calls; another call, or a
\* failure, can come between any two of them.
MaxCalls == 2

\* what the targeted variant computes between its reads and its writes
TargetedPlan(segments, sheetData, sheetHeaders) ==
    LET langCols == languageColumns(sheetHeaders)
        acc == ProcessRows(sheetData, 1, langCols,
                  [xlfMap |-> BuildXlfMap(segments, << >>),
                   rowsToUpdate |-> << >>, stats |-> ZeroStats])
        rowsToAdd == [i \in 1..Len(acc.xlfMap) |->
                         NewRow(acc.xlfMap[i].val, langCols)]
    IN  [rowsToUpdate |-> acc.rowsToUpdate,
         rowsToAdd    |-> rowsToAdd,
         stats        |-> [acc.stats EXCEPT !.added = Len(rowsToAdd)]]

\* what the full rewrite computes between its reads and writeSheet
RewritePlan(segments, sheetData, sheetHeaders) ==
    LET xlfMap   == BuildXlfMap(segments, << >>)
        sheetMap == BuildSheetMap(sheetData, << >>)
        langCols == languageColumns(sheetHeaders)
        live == [i \in 1..Len(xlfMap) |->
                    RewriteRow(xlfMap[i], sheetMap, langCols)]
        NotInXlf(e) == ~MapHas(xlfMap, e.key)
        gone == SelectSeq(sheetMap, NotInXlf)
        dead == [i \in 1..Len(gone) |-> Assign(gone[i].val, c_active, JSFalse)]
    IN  [updatedData |-> live \o dead,
         stats |-> [added       |-> CountKind(xlfMap, sheetMap, "added"),
                    updated     |-> CountKind(xlfMap, sheetMap, "updated"),
                    unchanged   |-> CountKind(xlfMap, sheetMap, "unchanged"),
                    deactivated |-> Len(dead)]]

\* values.batchUpdate with the rows laid out by `headers`
batchUpdate(grid, headers, updates) ==
    NormGrid(ApplyUpdates(grid, headers, updates))

\* values.append with the rows laid out by `headers`
append(grid, headers, data) ==
    NormGrid(NormGrid(grid) \o [i \in 1..Len(data) |-> ToRow(headers, data[i])])

\* values.clear of the columns A..lastColumn
clear(grid, headers) ==
    LET blank == [c \in 1..Len(headers) |-> EmptyStr]
    IN  NormGrid([r \in 1..Len(grid) |-> PutRow(grid[r], blank)])

\* values.update at A1 with the header row and the data rows
update(grid, headers, data) ==
    LET rows == << headers >> \o [i \in 1..Len(data) |-> ToRow(headers, data[i])]
        n    == Max(Len(grid), Len(rows))
    IN  NormGrid([r \in 1..n |->
            PutRow(GridRow(grid, r), IF r <= Len(rows) THEN rows[r] ELSE << >>)])

Idle ==
    [pc |-> "idle", doc |-> NoDoc, origin |-> << >>, overlapped |-> FALSE,
     order |-> 0, at |-> "idle",
     sheetData |-> << >>, headers |-> << >>, rowsToUpdate |-> << >>,
     rowsToAdd |-> << >>, updatedData |-> << >>, stats |-> ZeroStats]

\* a call that is between two of its awaits
Running(call) == call.pc \notin {"idle", "done", "failed", "threw"}

\* ------------------------------------------------ inputs of the steps ---
StepSheets ==
    { Sheet(Header1, << >>),
      Sheet(Header1, << RecAb >>),
      Sheet(Header1, << RecAb, RecC >>) }

StepDocs ==
    { [sourceLanguage |-> s_en_US, units |-> << >>],
      [sourceLanguage |-> s_en_US, units |-> << Unit(id_Ab, s_Hi, s_5, s_char) >>],
      [sourceLanguage |-> s_en_US, units |-> << Unit(id_C, s_Hi, Undefined, Undefined) >>],
      [sourceLanguage |-> s_en_US,
       units |-> << Unit(id_Ab, s_Yo, s_5, s_char),
                    Unit(id_C, s_Hi, Undefined, Undefined) >>],
      [sourceLanguage |-> s_fr, units |-> << Unit(id_C, s_Hi, Undefined, Undefined) >>] }

InitSteps ==
    /\ sheet \in StepSheets
    /\ variant \in {"targeted", "rewrite"}
    /\ last = [op |-> "none"]
    /\ nsync = 0
    /\ calls = [c \in 1..MaxCalls |-> Idle]

\* ------------------------------------------------------------- steps ---
\* syncXLFtoSheet is called: parseXLF, which throws on another source
\* language
Start(c) ==
    /\ calls[c].pc = "idle"
    /\ \E doc \in StepDocs :
          calls' = [d \in 1..MaxCalls |->
              IF d = c
              THEN [Idle EXCEPT !.pc = IF parseXLF(doc).ok THEN "readSheet"
                                       ELSE "threw",
                                !.doc = doc,
                                !.origin = sheet,
                                !.order = nsync + 1,
                                !.overlapped =
                                    \E e \in 1..MaxCalls : Running(calls[e])]
              ELSE IF Running(calls[d])
              THEN [calls[d] EXCEPT !.overlapped = TRUE]
              ELSE calls[d]]
    /\ nsync' = nsync + 1
    /\ UNCHANGED << sheet, variant, last >>

\* await readSheet()
ReadSheet(c) ==
    /\ calls[c].pc = "readSheet"
    /\ calls' = [calls EXCEPT ![c] =
                    [@ EXCEPT !.pc = "getSheetHeaders",
                              !.sheetData = readSheet(sheet)]]
    /\ UNCHANGED << sheet, variant, last, nsync >>

\* await getSheetHeaders(), and the loops of the targeted variant up to its
\* first write
PlanTargeted(c) ==
    /\ variant = "targeted"
    /\ calls[c].pc = "getSheetHeaders"
    /\ LET plan == TargetedPlan(parseXLF(calls[c].doc).segments,
                                calls[c].sheetData, getSheetHeaders(sheet))
       IN  calls' = [calls EXCEPT ![c] =
               [@ EXCEPT !.pc = IF Len(plan.rowsToUpdate) > 0 THEN "updateRows"
                                ELSE IF Len(plan.rowsToAdd) > 0 THEN "appendRows"
                                ELSE "done",
                         !.rowsToUpdate = plan.rowsToUpdate,
                         !.rowsToAdd = plan.rowsToAdd,
                         !.stats = plan.stats]]
    /\ UNCHANGED << sheet, variant, last, nsync >>

\* await getSheetHeaders(), and the loops of the full rewrite up to
\* writeSheet
PlanRewrite(c) ==
    /\ variant = "rewrite"
    /\ calls[c].pc = "getSheetHeaders"
    /\ LET plan == RewritePlan(parseXLF(calls[c].doc).segments,
                               calls[c].sheetData, getSheetHeaders(sheet))
       IN  calls' = [calls EXCEPT ![c] =
               [@ EXCEPT !.pc = "writeSheet",
                         !.updatedData = plan.updatedData,
                         !.stats = plan.stats]]
    /\ UNCHANGED << sheet, variant, last, nsync >>

\* updateRows: await getSheetHeaders()
UpdateRowsHeaders(c) ==
    /\ calls[c].pc = "updateRows"
    /\ calls' = [calls EXCEPT ![c] =
                    [@ EXCEPT !.pc = "batchUpdate",
                              !.headers = getSheetHeaders(sheet)]]
    /\ UNCHANGED << sheet, variant, last, nsync >>

\* updateRows: await values.batchUpdate
BatchUpdate(c) ==
    /\ calls[c].pc = "batchUpdate"
    /\ sheet' = batchUpdate(sheet, calls[c].headers, calls[c].rowsToUpdate)
    /\ calls' = [calls EXCEPT ![c] =
                    [@ EXCEPT !.pc = IF Len(calls[c].rowsToAdd) > 0
                                     THEN "appendRows" ELSE "done"]]
    /\ UNCHANGED << variant, last, nsync >>

\* appendRows: await getSheetHeaders()
AppendRowsHeaders(c) ==
    /\ calls[c].pc = "appendRows"
    /\ calls' = [calls EXCEPT ![c] =
                    [@ EXCEPT !.pc = "append",
                              !.headers = getSheetHeaders(sheet)]]
    /\ UNCHANGED << sheet, variant, last, nsync >>

\* appendRows: await values.append
AppendValues(c) ==
    /\ calls[c].pc = "append"
    /\ sheet' = append(sheet, calls[c].headers, calls[c].rowsToAdd)
    /\ calls' = [calls EXCEPT ![c] = [@ EXCEPT !.pc = "done"]]
    /\ UNCHANGED << variant, last, nsync >>

\* writeSheet: await getSheetHeaders(), which throws when there is none
WriteSheetHeaders(c) ==
    /\ calls[c].pc = "writeSheet"
    /\ calls' = [calls EXCEPT ![c] =
                    [@ EXCEPT !.pc = IF Len(getSheetHeaders(sheet)) = 0
                                     THEN "threw" ELSE "clear",
                              !.headers = getSheetHeaders(sheet)]]
    /\ UNCHANGED << sheet, variant, last, nsync >>

\* writeSheet: await values.clear
ClearValues(c) ==
    /\ calls[c].pc = "clear"
    /\ sheet' = clear(sheet, calls[c].headers)
    /\ calls' = [calls EXCEPT ![c] = [@ EXCEPT !.pc = "update"]]
    /\ UNCHANGED << variant, last, nsync >>

\* writeSheet: await values.update
UpdateValues(c) ==
    /\ calls[c].pc = "update"
    /\ sheet' = update(sheet, calls[c].headers, calls[c].updatedData)
    /\ calls' = [calls EXCEPT ![c] = [@ EXCEPT !.pc = "done"]]
    /\ UNCHANGED << variant, last, nsync >>

\* the store call the synchronization is waiting for fails, or the process
\* is stopped: the call ends where it is
Fail(c) ==
    /\ Running(calls[c])
    /\ calls' = [calls EXCEPT ![c] =
                    [@ EXCEPT !.pc = "failed", !.at = calls[c].pc]]
    /\ UNCHANGED << sheet, variant, last, nsync >>

NextSteps ==
    \E c \in 1..MaxCalls :
        \/ Start(c)
        \/ ReadSheet(c)
        \/ PlanTargeted(c)
        \/ PlanRewrite(c)
        \/ UpdateRowsHeaders(c)
        \/ BatchUpdate(c)
        \/ AppendRowsHeaders(c)
        \/ AppendValues(c)
        \/ WriteSheetHeaders(c)
        \/ ClearValues(c)
        \/ UpdateValues(c)
        \/ Fail(c)

SpecSteps == InitSteps /\ [][NextSteps]_vars

\* ------------------------------------------- claims about the steps ---
\* the sheet one whole run of the deployed variant leaves
Uninterrupted(grid, doc) ==
    IF variant = "targeted" THEN syncTargeted(grid, doc).sheet
    ELSE syncRewrite(grid, doc).sheet

\* C21: in the full-rewrite variant, when a synchronization that ran alone
\* has ended in a failure, the sheet is either the sheet from before the
\* call or the sheet a whole run leaves.
C21_NoPartialWrite ==
    \A c \in 1..MaxCalls :
        (/\ variant = "rewrite"
         /\ calls[c].pc \in {"failed", "threw"}
         /\ \A d \in 1..MaxCalls : d # c => calls[d].pc = "idle")
        => \/ sheet = calls[c].origin
           \/ sheet = Uninterrupted(calls[c].origin, calls[c].doc)

\* the call failed after one of its writes and before its last
FailedPartway(call) ==
    call.pc = "failed" /\ call.at \in {"appendRows", "append", "update"}

\* C22: when a synchronization failed between its store writes and the
\* same document is then synchronized again, alone and to its end, the
\* sheet is the one a single whole run on the first sheet leaves.
C22_RerunAfterFailure ==
    \A c, d \in 1..MaxCalls :
        (/\ FailedPartway(calls[c])
         /\ calls[d].pc \in {"done", "threw"}
         /\ calls[d].order > calls[c].order
         /\ ~calls[d].overlapped
         /\ calls[d].doc = calls[c].doc)
        => sheet = Uninterrupted(calls[c].origin, calls[c].doc)

SegmentIds(doc) ==
    {parseXLF(doc).segments[k].id : k \in 1..Len(parseXLF(doc).segments)}

RecordIds(records) == {Get(records[i], c_id) : i \in 1..Len(records)}

\* C25: when two synchronizations that overlapped have both run to their
\* end and both documents hold an id that neither call found in the sheet,
\* the sheet holds exactly one record with that id.
C25_UniqueUnderOverlap ==
    \A c, d \in 1..MaxCalls :
        (/\ c # d
         /\ calls[c].pc = "done" /\ calls[d].pc = "done"
         /\ calls[c].overlapped /\ calls[d].overlapped)
        => \A id \in (SegmentIds(calls[c].doc) \cap SegmentIds(calls[d].doc))
                       \ (RecordIds(calls[c].sheetData)
                            \cup RecordIds(calls[d].sheetData)) :
               IdCount(Rows, id) = 1

\* every record the call read is matched by a segment with the same source,
\* maxwidth and size-unit and is active, and every id of the document is in
\* the sheet the call read
NothingChanged(call) ==
    LET segments == parseXLF(call.doc).segments
        xlfMap   == BuildXlfMap(segments, << >>)
    IN  /\ Len(call.sheetData) > 0
        /\ \A i \in 1..Len(call.sheetData) :
              LET row == call.sheetData[i] IN
              /\ MapHas(xlfMap, Get(row, c_id))
              /\ MapGet(xlfMap, Get(row, c_id)).source = Get(row, c_English)
              /\ MapGet(xlfMap, Get(row, c_id)).maxwidth = Get(row, c_maxwidth)
              /\ MapGet(xlfMap, Get(row, c_id)).sizeUnit = Get(row, c_sizeunit)
              /\ IsActive(row)
        /\ SegmentIds(call.doc) \subseteq RecordIds(call.sheetData)

\* C28: in the targeted variant a synchronization that finds nothing
\* changed never comes to updateRows or appendRows.
C28_OnlyChangedRowsWritten ==
    \A c \in 1..MaxCalls :
        (/\ variant = "targeted"
         /\ calls[c].pc \in {"updateRows", "batchUpdate", "appendRows", "append"})
        => ~NothingChanged(calls[c])

====
